---- MODULE Spec2Model ----
(***************************************************************************)
(* Model of src/discord.py: the system monitor that publishes CPU, memory, *)
(* disk and network readings to Discord Rich Presence.                     *)
(*                                                                         *)
(* Three specifications share the module:                                  *)
(*   Spec         the polling loop of main() with initialize_rpc,          *)
(*                update_discord_presence and close_rpc;                   *)
(*   SpecFormat   human_readable applied to byte counts;                   *)
(*   SpecVariants get_presence_variants applied to sampled snapshots.      *)
(*                                                                         *)
(* Conventions.  Python's None is the record None.  A byte count is a      *)
(* sequence of base-1024 limbs, most significant first, without leading    *)
(* zeros (<<0>> is zero), so that counts beyond 2^31 are represented       *)
(* exactly.  Percentages are held in tenths of a percent (42.3% is 423).   *)
(* Timestamps (time.time()) are whole seconds.                             *)
(***************************************************************************)
EXTENDS Integers, Sequences, FiniteSets, TLC

VARIABLES
    pc,                     \* position of main()
    PYPRESENCE_AVAILABLE,   \* module flag set by the import at lines 15-19
    discord_client_id,      \* args.discord_client_id
    rpc_update_interval,    \* args.rpc_update_interval
    show_os,                \* args.show_os
    RPC,                    \* global connection handle, None when disconnected
    last_rpc_update_time,   \* global throttle timestamp
    current_time,           \* local of the loop body
    cpu_data, mem_data, disk_data, net_data,   \* locals of the loop body
    os_reads,               \* what psutil did in this tick's four reads
    tick_connect,           \* initialize_rpc was called in this tick
    tick_send,              \* RPC.update in this tick: "none", "ok", "raised"
    tick_payload,           \* the (details, state) handed to RPC.update
    last_accepted,          \* tick timestamp of the last RPC.update that succeeded
    prev_accepted,          \* tick timestamp of the one before it
    reconnect_due,          \* an RPC.update raised and no connect attempt followed yet
    pending_since,          \* timestamp of an eligible publish skipped for an absent reading
    close_calls,            \* number of close_rpc calls
    close_attempts,         \* number of RPC.close() calls
    hr_num,                 \* SpecFormat: argument of human_readable
    hr_out,                 \* SpecFormat: its return value
    pv_in,                  \* SpecVariants: arguments of get_presence_variants
    pv_out                  \* SpecVariants: its return value

loopVars == <<pc, PYPRESENCE_AVAILABLE, discord_client_id, rpc_update_interval,
              show_os, RPC, last_rpc_update_time, current_time,
              cpu_data, mem_data, disk_data, net_data, os_reads,
              tick_connect, tick_send, tick_payload, last_accepted, prev_accepted,
              reconnect_due, pending_since, close_calls, close_attempts>>
fmtVars == <<hr_num, hr_out>>
pvVars == <<pv_in, pv_out>>
vars == <<loopVars, fmtVars, pvVars>>

None == [none |-> TRUE]
NoTime == 0 - 1   \* "no such tick yet" in the bookkeeping variables

(***************************************************************************)
(* Bounds.                                                                 *)
(***************************************************************************)
MaxLimbs == 7
MaxTime == 2
MaxInterval == 2

(***************************************************************************)
(* Byte counts as limb sequences.                                          *)
(***************************************************************************)
Base == 1024
MantissaBits == 53

Digits == {0, 1, 256, 1023}

RECURSIVE SeqsOfLen(_, _)
SeqsOfLen(S, n) ==
    IF n = 0 THEN {<<>>}
    ELSE {<<d>> \o s : d \in S, s \in SeqsOfLen(S, n - 1)}

\* the byte counts of n limbs (the leading limb non-zero unless n = 1)
ByteCountsOfLen(n) ==
    IF n = 1 THEN {<<d>> : d \in Digits}
    ELSE {<<d>> \o s : d \in Digits \ {0}, s \in SeqsOfLen(Digits, n - 1)}

\* the byte counts of at most n limbs
ByteCounts(n) == UNION {ByteCountsOfLen(k) : k \in 1..n}

\* a Python number holding a byte count (a value that may also be None)
Bytes(limbs) == [bytes |-> limbs]

RECURSIVE AllZero(_)
AllZero(s) == IF s = <<>> THEN TRUE ELSE Head(s) = 0 /\ AllZero(Tail(s))

RECURSIVE Pow2(_)
Pow2(n) == IF n = 0 THEN 1 ELSE 2 * Pow2(n - 1)

RECURSIVE BitLength(_)
BitLength(d) == IF d = 0 THEN 0 ELSE 1 + BitLength(d \div 2)

RECURSIVE LimbsToInt(_)
LimbsToInt(s) ==
    IF s = <<>> THEN 0 ELSE LimbsToInt(SubSeq(s, 1, Len(s) - 1)) * Base + s[Len(s)]

RECURSIVE Zeros(_)
Zeros(n) == IF n = 0 THEN <<>> ELSE <<0>> \o Zeros(n - 1)

\* s + 1 on limbs, most significant first
RECURSIVE Increment(_)
Increment(s) ==
    IF s = <<>> THEN <<1>>
    ELSE IF s[Len(s)] + 1 < Base
         THEN SubSeq(s, 1, Len(s) - 1) \o <<s[Len(s)] + 1>>
         ELSE Increment(SubSeq(s, 1, Len(s) - 1)) \o <<0>>

(***************************************************************************)
(* float(b): the conversion Python applies to an int operand of            *)
(* "num /= 1024.0" (line 173).  A double keeps MantissaBits significant    *)
(* bits; the rest is rounded to nearest, ties to even.                     *)
(***************************************************************************)
ToFloat(s) ==
    LET n == Len(s)
        bits == 10 * (n - 1) + BitLength(s[1])
    IN  IF bits <= MantissaBits THEN s
        ELSE
          LET p == bits - MantissaBits
              q == p \div 10
              r == p % 10
              high == SubSeq(s, 1, n - q - 1)
              m == s[n - q]
              low == SubSeq(s, n - q + 1, n)
              mHi == m \div Pow2(r)
              mLo == m % Pow2(r)
              above == IF r >= 1
                       THEN mLo > Pow2(r - 1) \/ (mLo = Pow2(r - 1) /\ ~AllZero(low))
                       ELSE low[1] > Base \div 2
                            \/ (low[1] = Base \div 2 /\ ~AllZero(Tail(low)))
              tie == IF r >= 1
                     THEN mLo = Pow2(r - 1) /\ AllZero(low)
                     ELSE low[1] = Base \div 2 /\ AllZero(Tail(low))
              roundUp == above \/ (tie /\ mHi % 2 = 1)
              kept == IF roundUp THEN (mHi + 1) * Pow2(r) ELSE mHi * Pow2(r)
          IN  IF kept < Base
              THEN high \o <<kept>> \o Zeros(q)
              ELSE Increment(high) \o <<0>> \o Zeros(q)

(***************************************************************************)
(* human_readable (lines 165-174).  Inside the loop num is the exact       *)
(* dyadic value ip + 0.fp: ip the integer part as limbs, fp the fractional *)
(* limbs, most significant first.  Dividing a double by 1024.0 is exact.   *)
(***************************************************************************)
Units == <<"", "K", "M", "G", "T", "P">>

\* num /= 1024.0 (line 173); is_int: num is still the int argument
DivideBy1024(ip, fp, is_int) ==
    LET a == IF is_int THEN ToFloat(ip) ELSE ip
    IN  [ip |-> IF Len(a) = 1 THEN <<0>> ELSE SubSeq(a, 1, Len(a) - 1),
         fp |-> <<a[Len(a)]>> \o fp]

\* 10 * 0.fp as [carry |-> integer part, limbs |-> fractional limbs]
RECURSIVE Mul10(_)
Mul10(fp) ==
    IF fp = <<>> THEN [carry |-> 0, limbs |-> <<>>]
    ELSE LET rest == Mul10(Tail(fp))
             v == Head(fp) * 10 + rest.carry
         IN  [carry |-> v \div Base, limbs |-> <<v % Base>> \o rest.limbs]

\* f"{num:.1f} {unit}{suffix}" (lines 172, 174): correctly rounded to one
\* decimal, ties to even
FormatOneDecimal(ip, fp, unit, suffix) ==
    LET m == Mul10(fp)
        above == m.limbs # <<>>
                 /\ (m.limbs[1] > Base \div 2
                     \/ (m.limbs[1] = Base \div 2 /\ ~AllZero(Tail(m.limbs))))
        tie == m.limbs # <<>> /\ m.limbs[1] = Base \div 2 /\ AllZero(Tail(m.limbs))
        t == m.carry + (IF above \/ (tie /\ m.carry % 2 = 1) THEN 1 ELSE 0)
    IN  [whole |-> LimbsToInt(ip) + t \div 10, tenth |-> t % 10,
         unit |-> unit, suffix |-> suffix]

\* the for loop of lines 170-173 from its i-th unit on, and line 174
RECURSIVE HumanReadableLoop(_, _, _, _, _)
HumanReadableLoop(ip, fp, is_int, i, suffix) ==
    IF i > Len(Units)
    THEN FormatOneDecimal(ip, fp, "P", suffix)
    ELSE IF Len(ip) = 1
         THEN FormatOneDecimal(ip, fp, Units[i], suffix)
         ELSE LET d == DivideBy1024(ip, fp, is_int)
              IN  HumanReadableLoop(d.ip, d.fp, FALSE, i + 1, suffix)

\* variant: the loop starts at the second unit
human_readable_skips_unit(num, suffix) ==
    IF num = None THEN [text |-> "N/A"]
    ELSE HumanReadableLoop(num.bytes, <<>>, TRUE, 2, suffix)

human_readable(num, suffix) ==
    IF num = None THEN [text |-> "N/A"]
    ELSE HumanReadableLoop(num.bytes, <<>>, TRUE, 1, suffix)

(***************************************************************************)
(* SpecFormat: human_readable applied to a byte count.                     *)
(***************************************************************************)
LoopIdle ==
    /\ pc = "idle"
    /\ PYPRESENCE_AVAILABLE = TRUE
    /\ discord_client_id = "id"
    /\ rpc_update_interval = 0
    /\ show_os = FALSE
    /\ RPC = None
    /\ last_rpc_update_time = 0
    /\ current_time = 0
    /\ cpu_data = None /\ mem_data = None /\ disk_data = None /\ net_data = None
    /\ os_reads = None
    /\ tick_connect = FALSE
    /\ tick_send = "none"
    /\ tick_payload = None
    /\ last_accepted = NoTime
    /\ prev_accepted = NoTime
    /\ reconnect_due = FALSE
    /\ pending_since = NoTime
    /\ close_calls = 0
    /\ close_attempts = 0

Pending == [pending |-> TRUE]

InitFormat ==
    /\ LoopIdle
    /\ hr_num \in {Bytes(b) : b \in ByteCounts(MaxLimbs)} \cup {None}
    /\ hr_out = Pending
    /\ pv_in = None /\ pv_out = None

CallHumanReadable ==
    /\ hr_out = Pending
    /\ hr_out' = human_readable(hr_num, "B")
    /\ UNCHANGED <<loopVars, pvVars, hr_num>>

NextFormat == CallHumanReadable

SpecFormat == InitFormat /\ [][NextFormat]_vars

(***************************************************************************)
(* The metric accessors (lines 51-149).  Each takes what psutil did in     *)
(* the call: raised, returned nothing, or returned counters.               *)
(***************************************************************************)
\* truth value of a dict-or-None (the accessors never return an empty dict)
Truthy(x) == x # None

get_cpu_usage(os) ==
    IF os.percent_raises \/ os.freq_raises = "Exception" THEN None
    ELSE [overall |-> os.overall,
          frequency |-> IF os.freq_raises = "OSError" \/ os.freq = None
                        THEN None
                        ELSE [current |-> os.freq.current, min |-> os.freq.min,
                              max |-> os.freq.max]]

get_memory_usage(os) ==
    IF os.raises THEN None
    ELSE IF os.swap_total # Bytes(<<0>>)
         THEN [total |-> os.total, used |-> os.used, percent |-> os.percent,
               available |-> os.available, swap_total |-> os.swap_total,
               swap_used |-> os.swap_used, swap_percent |-> os.swap_percent]
         ELSE [total |-> os.total, used |-> os.used, percent |-> os.percent,
               available |-> os.available]

get_disk_io(os) ==
    IF os.raises THEN None
    ELSE IF os.io # None
         THEN [read |-> os.io.read_bytes, write |-> os.io.write_bytes]
         ELSE None

\* variant: the two byte counters are exchanged
get_network_io_swapped(os) ==
    IF os.raises THEN None
    ELSE IF os.net # None
         THEN [sent |-> os.net.bytes_recv, recv |-> os.net.bytes_sent]
         ELSE None

get_network_io(os) ==
    IF os.raises THEN None
    ELSE IF os.net # None
         THEN [sent |-> os.net.bytes_sent, recv |-> os.net.bytes_recv]
         ELSE None

(***************************************************************************)
(* get_presence_variants (lines 176-223).  A line of text is a record of   *)
(* the label and the values formatted into it.                             *)
(***************************************************************************)
OS_NAME == "Linux"

SwapPercentThreshold == 50      \* "> 5" of line 217, in tenths of a percent

CpuLine(cpu, os_suffix) == [text |-> "CPU", overall |-> cpu.overall, os |-> os_suffix]
RamLine(mem, os_suffix) ==
    [text |-> "RAM", percent |-> mem.percent, used |-> human_readable(mem.used, "B"),
     total |-> human_readable(mem.total, "B"), os |-> os_suffix]
DiskLine(disk, os_suffix) ==
    [text |-> "Disk R/W", read |-> human_readable(disk.read, "B"),
     write |-> human_readable(disk.write, "B"), os |-> os_suffix]
NetLine(net) ==
    [text |-> "Net S/R", sent |-> human_readable(net.sent, "B"),
     recv |-> human_readable(net.recv, "B"), os |-> ""]

\* lines 181-185
CpuRamVariants(cpu, mem, disk, net, os_suffix) ==
    <<[details |-> CpuLine(cpu, os_suffix), state |-> RamLine(mem, "")]>>

\* variant: the Disk & Net entry is never appended
DiskNetVariants_omitted(cpu, mem, disk, net, os_suffix) == <<>>

\* lines 187-192
DiskNetVariants(cpu, mem, disk, net, os_suffix) ==
    IF Truthy(disk) /\ Truthy(net)
    THEN <<[details |-> DiskLine(disk, os_suffix), state |-> NetLine(net)]>>
    ELSE <<>>

\* lines 194-199
CpuDiskVariants(cpu, mem, disk, net, os_suffix) ==
    IF Truthy(disk)
    THEN <<[details |-> CpuLine(cpu, os_suffix), state |-> DiskLine(disk, "")]>>
    ELSE <<>>

\* lines 201-206
RamNetVariants(cpu, mem, disk, net, os_suffix) ==
    IF Truthy(net)
    THEN <<[details |-> RamLine(mem, os_suffix), state |-> NetLine(net)]>>
    ELSE <<>>

\* lines 208-214
FrequencyVariants(cpu, mem, flag) ==
    IF Truthy(cpu.frequency) /\ flag
    THEN <<[details |-> [text |-> "CPU @", overall |-> cpu.overall,
                         mhz |-> cpu.frequency.current, os |-> ""],
            state |-> [text |-> "RAM |", percent |-> mem.percent, os |-> OS_NAME]]>>
    ELSE <<>>

\* variant: the threshold is inclusive
SwapIsSignificant_inclusive(mem) ==
    /\ (IF "swap_total" \in DOMAIN mem THEN mem.swap_total ELSE Bytes(<<0>>)) # Bytes(<<0>>)
    /\ (IF "swap_percent" \in DOMAIN mem THEN mem.swap_percent ELSE 0) >= SwapPercentThreshold

\* mem.get('swap_total', 0) > 0 and mem.get('swap_percent', 0) > 5 (line 217)
SwapIsSignificant(mem) ==
    /\ (IF "swap_total" \in DOMAIN mem THEN mem.swap_total ELSE Bytes(<<0>>)) # Bytes(<<0>>)
    /\ (IF "swap_percent" \in DOMAIN mem THEN mem.swap_percent ELSE 0) > SwapPercentThreshold

\* lines 216-221
SwapVariants(mem, os_suffix) ==
    IF SwapIsSignificant(mem)
    THEN <<[details |-> [text |-> "RAM | Swap", percent |-> mem.percent,
                         swap_percent |-> mem.swap_percent, os |-> os_suffix],
            state |-> [text |-> "Physical", used |-> human_readable(mem.used, "B"),
                       total |-> human_readable(mem.total, "B"), os |-> ""]]>>
    ELSE <<>>

get_presence_variants(cpu, mem, disk, net, flag) ==
    LET os_suffix == IF flag THEN " | Linux" ELSE ""
    IN  CpuRamVariants(cpu, mem, disk, net, os_suffix)
        \o DiskNetVariants(cpu, mem, disk, net, os_suffix)
        \o CpuDiskVariants(cpu, mem, disk, net, os_suffix)
        \o RamNetVariants(cpu, mem, disk, net, os_suffix)
        \o FrequencyVariants(cpu, mem, flag)
        \o SwapVariants(mem, os_suffix)

(***************************************************************************)
(* What psutil can do in one call of each accessor.                        *)
(***************************************************************************)
KiB(n) == Bytes(<<n, 0>>)
GiB(n) == Bytes(<<n, 0, 0, 0>>)

Frequencies == {None, [current |-> 2400, min |-> 800, max |-> 3600]}

CpuReads ==
    {[percent_raises |-> TRUE, overall |-> 0, freq_raises |-> "no", freq |-> None]}
    \cup {[percent_raises |-> FALSE, overall |-> 423, freq_raises |-> r, freq |-> f] :
            r \in {"no"}, f \in Frequencies}
    \cup {[percent_raises |-> FALSE, overall |-> 423, freq_raises |-> r, freq |-> None] :
            r \in {"OSError", "Exception"}}

SwapPercents == {0, 49, 50, 51, 1000}

MemReads ==
    {[raises |-> TRUE, total |-> GiB(0), used |-> GiB(0), percent |-> 0,
      available |-> GiB(0), swap_total |-> Bytes(<<0>>), swap_used |-> Bytes(<<0>>),
      swap_percent |-> 0]}
    \cup {[raises |-> FALSE, total |-> GiB(16), used |-> GiB(4), percent |-> 250,
           available |-> GiB(12), swap_total |-> Bytes(<<0>>),
           swap_used |-> Bytes(<<0>>), swap_percent |-> 0]}
    \cup {[raises |-> FALSE, total |-> GiB(16), used |-> GiB(4), percent |-> 250,
           available |-> GiB(12), swap_total |-> GiB(2), swap_used |-> KiB(5),
           swap_percent |-> p] : p \in SwapPercents}

DiskReads ==
    {[raises |-> TRUE, io |-> None], [raises |-> FALSE, io |-> None]}
    \cup {[raises |-> FALSE, io |-> [read_bytes |-> GiB(r), write_bytes |-> KiB(700)]] :
            r \in {3, 1023}}

NetReads ==
    {[raises |-> TRUE, net |-> None], [raises |-> FALSE, net |-> None],
     [raises |-> FALSE, net |-> [bytes_sent |-> KiB(1), bytes_recv |-> GiB(9)]]}

(***************************************************************************)
(* SpecVariants: get_presence_variants applied to a sampled snapshot.  It  *)
(* is called only with a CPU and a memory reading (line 366).              *)
(***************************************************************************)
InitVariants ==
    /\ LoopIdle
    /\ hr_num = None /\ hr_out = None
    /\ \E c \in CpuReads, m \in MemReads, d \in DiskReads, n \in NetReads, f \in BOOLEAN :
         /\ Truthy(get_cpu_usage(c)) /\ Truthy(get_memory_usage(m))
         /\ pv_in = [cpu |-> get_cpu_usage(c), mem |-> get_memory_usage(m),
                     disk |-> get_disk_io(d), net |-> get_network_io(n),
                     show_os |-> f, swap |-> [total |-> m.swap_total,
                                              percent |-> m.swap_percent]]
    /\ pv_out = Pending

CallGetPresenceVariants ==
    /\ pv_out = Pending
    /\ pv_out' = [pool |-> get_presence_variants(pv_in.cpu, pv_in.mem, pv_in.disk,
                                                 pv_in.net, pv_in.show_os)]
    /\ UNCHANGED <<loopVars, fmtVars, pv_in>>

NextVariants == CallGetPresenceVariants

SpecVariants == InitVariants /\ [][NextVariants]_vars

(***************************************************************************)
(* Spec: main() (lines 328-384) with initialize_rpc, update_discord_       *)
(* presence and close_rpc.  pc is the position of main():                  *)
(*   "start"    before line 331                                            *)
(*   "sample"   at the top of the loop body (line 356)                     *)
(*   "connect"  before line 362                                            *)
(*   "publish"  before line 365                                            *)
(*   "sleep"    at line 376                                                *)
(*   "finally"  the loop was left by an exception, before line 383         *)
(*   "done"     main() returned after the finally clause                   *)
(*   "exit1"    sys.exit(1) at line 334                                    *)
(*   "returned" the return of line 345                                     *)
(***************************************************************************)
DEFAULT_DISCORD_CLIENT_ID == "1380200369144987760"
PLACEHOLDER_CLIENT_ID == "YOUR_CLIENT_ID_HERE"

Presence == [handle |-> "Presence"]     \* a pypresence.Presence object

Times == 0..MaxTime
Intervals == 0..MaxInterval

LoopPcs == {"sample", "connect", "publish", "sleep"}

\* the reads of one tick of the loop
TickCpuReads == {c \in CpuReads : c.freq = None /\ c.freq_raises = "no"}
TickMemReads == {m \in MemReads : m.swap_percent = 0 /\ m.swap_total = Bytes(<<0>>)}
TickDiskReads == {d \in DiskReads : IF d.io = None THEN d.raises ELSE d.io.read_bytes = GiB(3)}
TickNetReads == {n \in NetReads : n.net = None => n.raises}

Init ==
    /\ pc = "start"
    /\ PYPRESENCE_AVAILABLE \in BOOLEAN
    /\ discord_client_id \in {DEFAULT_DISCORD_CLIENT_ID, PLACEHOLDER_CLIENT_ID}
    /\ rpc_update_interval \in Intervals
    /\ show_os \in BOOLEAN
    /\ RPC = None
    /\ last_rpc_update_time = 0
    /\ current_time = 0
    /\ cpu_data = None /\ mem_data = None /\ disk_data = None /\ net_data = None
    /\ os_reads = None
    /\ tick_connect = FALSE
    /\ tick_send = "none"
    /\ tick_payload = None
    /\ last_accepted = NoTime
    /\ prev_accepted = NoTime
    /\ reconnect_due = FALSE
    /\ pending_since = NoTime
    /\ close_calls = 0
    /\ close_attempts = 0
    /\ hr_num = None /\ hr_out = None
    /\ pv_in = None /\ pv_out = None

bookkeeping == <<tick_connect, tick_send, tick_payload, last_accepted, prev_accepted,
                 reconnect_due, pending_since, close_calls, close_attempts>>
config == <<PYPRESENCE_AVAILABLE, discord_client_id, rpc_update_interval, show_os>>
readings == <<cpu_data, mem_data, disk_data, net_data, os_reads>>

\* check_dependencies (lines 299-326); psutil is imported at line 7
check_dependencies == PYPRESENCE_AVAILABLE

\* lines 331-352
MainStart ==
    /\ pc = "start"
    /\ pc' = IF ~check_dependencies THEN "exit1"
             ELSE IF ~(PYPRESENCE_AVAILABLE /\ discord_client_id # PLACEHOLDER_CLIENT_ID)
                  THEN "returned"
                  ELSE "sample"
    /\ last_rpc_update_time' = 0
    /\ UNCHANGED <<config, RPC, current_time, readings, bookkeeping, fmtVars, pvVars>>

\* lines 356-360: the tick's timestamp and its four readings
Sample ==
    /\ pc = "sample"
    /\ \E t \in Times, c \in TickCpuReads, m \in TickMemReads,
          d \in TickDiskReads, n \in TickNetReads :
         /\ current_time' = t
         /\ cpu_data' = get_cpu_usage(c)
         /\ mem_data' = get_memory_usage(m)
         /\ disk_data' = get_disk_io(d)
         /\ net_data' = get_network_io(n)
         /\ os_reads' = [cpu |-> c, mem |-> m, disk |-> d, net |-> n]
    /\ tick_connect' = FALSE
    /\ tick_send' = "none"
    /\ tick_payload' = None
    /\ pc' = "connect"
    /\ UNCHANGED <<config, RPC, last_rpc_update_time, last_accepted, prev_accepted,
                   reconnect_due, pending_since, close_calls, close_attempts, fmtVars, pvVars>>

ConnectOutcomes == {"connected", "refused", "constructor raises"}

\* initialize_rpc (lines 225-245): the value of RPC when it returns or raises
initialize_rpc(client_id, outcome) ==
    IF ~PYPRESENCE_AVAILABLE \/ client_id = PLACEHOLDER_CLIENT_ID THEN RPC
    ELSE IF outcome = "connected" THEN Presence
    ELSE None

\* lines 362-363
CheckConnection ==
    /\ pc = "connect"
    /\ IF RPC = None
       THEN \E outcome \in ConnectOutcomes :
              /\ RPC' = initialize_rpc(discord_client_id, outcome)
              /\ pc' = IF outcome = "constructor raises" THEN "finally" ELSE "publish"
              /\ tick_connect' = TRUE
              /\ reconnect_due' = FALSE
       ELSE /\ pc' = "publish"
            /\ UNCHANGED <<RPC, tick_connect, reconnect_due>>
    /\ UNCHANGED <<config, last_rpc_update_time, current_time, readings, tick_send,
                   tick_payload, last_accepted, prev_accepted, pending_since,
                   close_calls, close_attempts, fmtVars, pvVars>>

\* variant: the elapsed time is not taken from the last update
PublishEligible_ignores_last == current_time >= rpc_update_interval

\* line 365: current_time - last_rpc_update_time >= rpc_update_interval
PublishEligible == current_time - last_rpc_update_time >= rpc_update_interval

\* variant: only the CPU reading is required
ReadingsPresent_cpu_only == Truthy(cpu_data)

\* line 366: cpu_data and mem_data
ReadingsPresent == Truthy(cpu_data) /\ Truthy(mem_data)

UpdateOutcomes == {"ok", "raises"}

\* variant: a failed RPC.update leaves the handle in place
update_discord_presence_keeps_handle(outcome) ==
    IF RPC = None \/ ~PYPRESENCE_AVAILABLE
    THEN UNCHANGED <<RPC, tick_send, tick_payload, last_accepted, prev_accepted,
                     reconnect_due>>
    ELSE IF cpu_data = None \/ mem_data = None
    THEN /\ RPC' = None
         /\ UNCHANGED <<tick_send, tick_payload, last_accepted, prev_accepted,
                        reconnect_due>>
    ELSE LET variants == get_presence_variants(cpu_data, mem_data, disk_data,
                                               net_data, show_os)
         IN  /\ tick_payload' \in {variants[i] : i \in 1..Len(variants)}
             /\ IF outcome = "ok"
                THEN /\ tick_send' = "ok"
                     /\ last_accepted' = current_time
                     /\ prev_accepted' = last_accepted
                     /\ UNCHANGED <<RPC, reconnect_due>>
                ELSE /\ tick_send' = "raised"
                     /\ reconnect_due' = TRUE
                     /\ UNCHANGED <<RPC, last_accepted, prev_accepted>>

\* update_discord_presence (lines 247-286) on this tick's readings; outcome
\* is what RPC.update does, and random.choice picks any entry of the pool
\* (the pool always holds the CPU & RAM entry, so line 262 never returns)
update_discord_presence(outcome) ==
    IF RPC = None \/ ~PYPRESENCE_AVAILABLE
    THEN UNCHANGED <<RPC, tick_send, tick_payload, last_accepted, prev_accepted,
                     reconnect_due>>
    ELSE IF cpu_data = None \/ mem_data = None
    THEN \* subscripting None raises inside the try block
         /\ RPC' = None
         /\ UNCHANGED <<tick_send, tick_payload, last_accepted, prev_accepted,
                        reconnect_due>>
    ELSE LET variants == get_presence_variants(cpu_data, mem_data, disk_data,
                                               net_data, show_os)
         IN  /\ tick_payload' \in {variants[i] : i \in 1..Len(variants)}
             /\ IF outcome = "ok"
                THEN /\ tick_send' = "ok"
                     /\ last_accepted' = current_time
                     /\ prev_accepted' = last_accepted
                     /\ UNCHANGED <<RPC, reconnect_due>>
                ELSE /\ tick_send' = "raised"
                     /\ RPC' = None
                     /\ reconnect_due' = TRUE
                     /\ UNCHANGED <<last_accepted, prev_accepted>>

Min(a, b) == IF a <= b THEN a ELSE b

\* lines 365-374
Publish ==
    /\ pc = "publish"
    /\ IF Truthy(RPC) /\ PublishEligible
       THEN IF ReadingsPresent
            THEN /\ \E outcome \in UpdateOutcomes : update_discord_presence(outcome)
                 /\ last_rpc_update_time' = current_time
                 /\ pending_since' = NoTime
            ELSE /\ pending_since' = IF pending_since = NoTime THEN current_time
                                     ELSE Min(pending_since, current_time)
                 /\ UNCHANGED <<RPC, last_rpc_update_time, tick_send, tick_payload,
                                last_accepted, prev_accepted, reconnect_due>>
       ELSE UNCHANGED <<RPC, last_rpc_update_time, tick_send, tick_payload,
                        last_accepted, prev_accepted, reconnect_due, pending_since>>
    /\ pc' = "sleep"
    /\ UNCHANGED <<config, current_time, readings, tick_connect, close_calls,
                   close_attempts, fmtVars, pvVars>>

\* line 376
Sleep ==
    /\ pc = "sleep"
    /\ pc' = "sample"
    /\ UNCHANGED <<config, RPC, last_rpc_update_time, current_time, readings,
                   bookkeeping, fmtVars, pvVars>>

\* the interrupt signal, delivered anywhere in the loop (lines 378-379); in
\* initialize_rpc it can arrive after line 231 has bound the new handle
KeyboardInterrupt ==
    /\ pc \in LoopPcs
    /\ pc' = "finally"
    /\ \/ UNCHANGED RPC
       \/ /\ pc = "connect" /\ RPC = None
          /\ RPC' = Presence
    /\ UNCHANGED <<config, last_rpc_update_time, current_time, readings,
                   bookkeeping, fmtVars, pvVars>>

CloseOutcomes == {"closed", "raises"}

\* variant: the handle is dropped only when RPC.close() succeeds
close_rpc_keeps_handle(outcome) ==
    /\ close_attempts' = IF Truthy(RPC) /\ PYPRESENCE_AVAILABLE
                         THEN close_attempts + 1 ELSE close_attempts
    /\ RPC' = IF Truthy(RPC) /\ PYPRESENCE_AVAILABLE /\ outcome = "raises" THEN RPC ELSE None
    /\ close_calls' = close_calls + 1

\* close_rpc (lines 288-297); outcome is what RPC.close() does
close_rpc(outcome) ==
    /\ close_attempts' = IF Truthy(RPC) /\ PYPRESENCE_AVAILABLE
                         THEN close_attempts + 1 ELSE close_attempts
    /\ RPC' = None
    /\ close_calls' = close_calls + 1

\* lines 382-384
MainFinally ==
    /\ pc = "finally"
    /\ IF PYPRESENCE_AVAILABLE
       THEN \E outcome \in CloseOutcomes : close_rpc(outcome)
       ELSE UNCHANGED <<RPC, close_calls, close_attempts>>
    /\ pc' = "done"
    /\ UNCHANGED <<config, last_rpc_update_time, current_time, readings,
                   tick_connect, tick_send, tick_payload, last_accepted,
                   prev_accepted, reconnect_due, pending_since, fmtVars, pvVars>>

Next ==
    \/ MainStart
    \/ Sample
    \/ CheckConnection
    \/ Publish
    \/ Sleep
    \/ KeyboardInterrupt
    \/ MainFinally

Spec == Init /\ [][Next]_vars

(***************************************************************************)
(* Properties of the polling loop (Spec).                                  *)
(***************************************************************************)
\* this step calls RPC.update
UpdateIssued == tick_send = "none" /\ tick_send' # "none"

\* this step is the publish stage of a tick (lines 365-374) running through
PublishStep == pc = "publish" /\ pc' = "sleep"

Elapsed == current_time - last_rpc_update_time

\* C1: two consecutive accepted sends (RPC.update calls that succeed) are
\* never less than rpc_update_interval apart, measured by the timestamps
\* of their ticks, whatever the tick timestamps, the connect and send
\* outcomes and the absent readings are.
C1_AcceptedSendsSpaced ==
    prev_accepted # NoTime => last_accepted - prev_accepted >= rpc_update_interval

C1_Witness ==
    /\ prev_accepted # NoTime
    /\ rpc_update_interval > 0
    /\ last_accepted - prev_accepted = rpc_update_interval

\* C2: when RPC.update raises, RPC is None when update_discord_presence
\* returns; the next tick calls initialize_rpc before its publish stage;
\* and no RPC.update is issued between the failure and that connect attempt.
C2_FailureDisconnectsThenReconnects ==
    /\ [](pc = "sleep" /\ tick_send = "raised" => RPC = None /\ reconnect_due)
    /\ [](pc \in LoopPcs /\ reconnect_due => RPC = None /\ pc # "publish")
    /\ [][UpdateIssued => ~reconnect_due]_vars
    /\ [][(reconnect_due /\ pc = "connect" /\ pc' = "publish") => tick_connect']_vars

C2_Witness ==
    /\ pc = "sleep"
    /\ tick_send = "raised"
    /\ RPC = None
    /\ reconnect_due

\* C3: once the loop has been entered, however it is left, close_rpc runs
\* exactly once; it calls RPC.close() iff a handle is held, once, whatever
\* that call does; and RPC is None at the end.
C3_CloseRunsOnce ==
    /\ [](close_calls <= 1 /\ close_attempts <= 1)
    /\ [](pc \in LoopPcs => close_calls = 0)
    /\ [](pc = "finally" => close_calls = 0 /\ ENABLED MainFinally)
    /\ [](pc = "done" => close_calls = 1 /\ RPC = None)
    /\ [][(pc \in LoopPcs /\ pc' \notin LoopPcs) => pc' = "finally"]_vars
    /\ [][(pc = "finally" /\ pc' # "finally") =>
            /\ pc' = "done"
            /\ close_attempts' = (IF RPC # None THEN 1 ELSE 0)]_vars

C3_Witness ==
    /\ pc = "done"
    /\ close_calls = 1
    /\ close_attempts = 1
    /\ RPC = None
    /\ tick_send = "ok"

\* C4: last_rpc_update_time is 0 or the timestamp of the most recent tick
\* whose RPC.update succeeded; a tick whose send fails does not advance it.
C4_ThrottleTracksAcceptedSend ==
    last_rpc_update_time = 0 \/ last_rpc_update_time = last_accepted

\* a tick's readings have been taken
Sampled == os_reads # None

\* C5: each accessor returns None exactly when its own psutil read fails
\* (or yields nothing) and its populated reading otherwise, whatever the
\* other three reads do; the loop goes on; and a tick with CPU and memory
\* present publishes whether or not disk and network are absent.
C5_AccessorsIndependent ==
    /\ [](Sampled =>
            /\ cpu_data = None <=> (os_reads.cpu.percent_raises
                                    \/ os_reads.cpu.freq_raises = "Exception")
            /\ cpu_data # None => cpu_data.overall = os_reads.cpu.overall
            /\ mem_data = None <=> os_reads.mem.raises
            /\ mem_data # None => /\ mem_data.used = os_reads.mem.used
                                  /\ mem_data.total = os_reads.mem.total
                                  /\ mem_data.percent = os_reads.mem.percent
            /\ disk_data = None <=> (os_reads.disk.raises \/ os_reads.disk.io = None)
            /\ disk_data # None => /\ disk_data.read = os_reads.disk.io.read_bytes
                                   /\ disk_data.write = os_reads.disk.io.write_bytes
            /\ net_data = None <=> (os_reads.net.raises \/ os_reads.net.net = None)
            /\ net_data # None => /\ net_data.sent = os_reads.net.net.bytes_sent
                                  /\ net_data.recv = os_reads.net.net.bytes_recv)
    /\ [](pc = "sample" => ENABLED Sample)
    /\ [](pc = "sleep" => ENABLED Sleep)
    /\ [][(pc = "sample" /\ pc' \notin {"sample", "connect"}) => os_reads' = os_reads]_vars
    /\ [][(PublishStep /\ RPC # None /\ Elapsed >= rpc_update_interval
             /\ cpu_data # None /\ mem_data # None) => UpdateIssued]_vars

C5_Witness ==
    /\ pc = "sleep"
    /\ tick_send = "ok"
    /\ os_reads.disk.raises /\ os_reads.net.raises
    /\ disk_data = None /\ net_data = None
    /\ cpu_data # None /\ mem_data # None

\* C9: in a tick RPC.update is issued only if, after the tick's connect
\* stage, RPC is set, the elapsed time has reached the interval and both
\* the CPU and the memory reading are present; otherwise nothing is sent
\* and last_rpc_update_time is unchanged; so a publish skipped for an
\* absent reading is sent at the first later tick (one whose timestamp is
\* not before the skipped tick's) with both readings and a connection.
C9_PublishOnlyWhenAllThreeHold ==
    /\ [][UpdateIssued =>
            /\ PublishStep
            /\ RPC # None
            /\ Elapsed >= rpc_update_interval
            /\ cpu_data # None /\ mem_data # None]_vars
    /\ [][(PublishStep /\ ~(/\ RPC # None
                            /\ Elapsed >= rpc_update_interval
                            /\ cpu_data # None /\ mem_data # None)) =>
            /\ ~UpdateIssued
            /\ last_rpc_update_time' = last_rpc_update_time]_vars
    /\ [][(PublishStep /\ pending_since # NoTime /\ current_time >= pending_since
             /\ RPC # None /\ cpu_data # None /\ mem_data # None) =>
            UpdateIssued]_vars

C9_Witness ==
    /\ pc = "sleep"
    /\ RPC # None
    /\ Elapsed >= rpc_update_interval
    /\ rpc_update_interval > 0
    /\ cpu_data = None
    /\ tick_send = "none"
    /\ pending_since = current_time
    /\ last_rpc_update_time # current_time

(***************************************************************************)
(* Properties of human_readable (SpecFormat).                              *)
(***************************************************************************)
HrReturned == hr_out # Pending /\ hr_num # None

\* b / 1024^i < 1024 for the exact byte count b
BelowNextUnit(b, i) == Len(b) <= i + 1

\* the index in 0..5 of the unit of a returned text
UnitIndex(out) == (CHOOSE i \in 1..Len(Units) : Units[i] = out.unit) - 1

\* b / 1024^i rendered to one decimal; as in Python, the quotient of an int
\* by a power of 1024.0 is taken on float(b)
ExactMagnitude(count, i) ==
    LET b == IF i = 0 THEN count ELSE ToFloat(count)
        n == Len(b)
        ip == IF n > i THEN SubSeq(b, 1, n - i) ELSE <<0>>
        fp == IF n > i THEN SubSeq(b, n - i + 1, n) ELSE Zeros(i - n) \o b
    IN  FormatOneDecimal(ip, fp, "", "")

\* C7: the unit human_readable renders is the smallest unit of none, K, M,
\* G, T, P at which the byte count divided by 1024^index is below 1024, it
\* is P whenever the count divided by 1024^5 is 1024 or more, and the
\* magnitude carries exactly one decimal digit.
C7_SmallestFittingUnit ==
    HrReturned =>
        /\ hr_out.unit \in {Units[i] : i \in 1..Len(Units)}
        /\ LET i == UnitIndex(hr_out)
               b == hr_num.bytes
           IN  /\ \A j \in 0..(i - 1) : ~BelowNextUnit(b, j)
               /\ i < 5 => BelowNextUnit(b, i)
               /\ ~BelowNextUnit(b, 5) => i = 5
        /\ hr_out.tenth \in 0..9
        /\ hr_out.whole \in Nat

C7_Witness ==
    /\ HrReturned
    /\ hr_num = Bytes(<<1, 0, 0, 0, 0, 0, 0>>)
    /\ hr_out.unit = "P"

\* C10: the magnitude human_readable renders is the byte count divided by
\* 1024^i to one decimal place, i being the index of the unit it renders.
C10_MagnitudeMatchesUnit ==
    HrReturned =>
        LET e == ExactMagnitude(hr_num.bytes, UnitIndex(hr_out))
        IN  hr_out.whole = e.whole /\ hr_out.tenth = e.tenth

(***************************************************************************)
(* Properties of get_presence_variants (SpecVariants).                     *)
(***************************************************************************)
PvReturned == pv_out # Pending

Range(seq) == {seq[i] : i \in 1..Len(seq)}

\* the entries of a pool whose two lines carry the given labels
Entries(pool, details_text, state_text) ==
    {v \in Range(pool) : v.details.text = details_text /\ v.state.text = state_text}

HasFrequencyVariant(pool) == Entries(pool, "CPU @", "RAM |") # {}
HasSwapVariant(pool) == Entries(pool, "RAM | Swap", "Physical") # {}

\* C6: with CPU and memory present and neither the frequency nor the swap
\* variant in the pool, the pool starts with CPU+RAM, holds CPU+Disk iff
\* disk is present, RAM+Net iff network is present, Disk+Net iff both are,
\* has 1, 2, 2 or 4 entries accordingly, and contains the pool of the same
\* snapshot with a facet removed.
C6_PoolComposition ==
    (PvReturned /\ ~HasFrequencyVariant(pv_out.pool) /\ ~HasSwapVariant(pv_out.pool)) =>
        LET pool == pv_out.pool
            d == Truthy(pv_in.disk)
            n == Truthy(pv_in.net)
            without(disk, net) ==
                get_presence_variants(pv_in.cpu, pv_in.mem, disk, net, pv_in.show_os)
        IN  /\ pool[1].details.text = "CPU" /\ pool[1].state.text = "RAM"
            /\ Cardinality(Entries(pool, "CPU", "RAM")) = 1
            /\ Cardinality(Entries(pool, "CPU", "Disk R/W")) = (IF d THEN 1 ELSE 0)
            /\ Cardinality(Entries(pool, "RAM", "Net S/R")) = (IF n THEN 1 ELSE 0)
            /\ Cardinality(Entries(pool, "Disk R/W", "Net S/R")) = (IF d /\ n THEN 1 ELSE 0)
            /\ Len(pool) = (IF d /\ n THEN 4 ELSE IF d \/ n THEN 2 ELSE 1)
            /\ Range(without(None, pv_in.net)) \subseteq Range(pool)
            /\ Range(without(pv_in.disk, None)) \subseteq Range(pool)
            /\ Range(without(None, None)) \subseteq Range(pool)

C6_Witness ==
    /\ PvReturned
    /\ ~HasFrequencyVariant(pv_out.pool) /\ ~HasSwapVariant(pv_out.pool)
    /\ Truthy(pv_in.disk) /\ Truthy(pv_in.net)
    /\ Len(pv_out.pool) = 4

\* C8: the swap variant is in the pool iff the memory read had swap total
\* above 0 and swap percent strictly above 5, whatever disk, network,
\* frequency and show_os are.
C8_SwapVariantStrict ==
    PvReturned =>
        (HasSwapVariant(pv_out.pool)
            <=> (pv_in.swap.total # Bytes(<<0>>) /\ pv_in.swap.percent > 50))

C8_Witness ==
    /\ PvReturned
    /\ pv_in.swap.total # Bytes(<<0>>)
    /\ pv_in.swap.percent = 50
    /\ ~HasSwapVariant(pv_out.pool)

====
